---- MODULE Spec2Model ----
(***************************************************************************)
(* Model of StockSeller_Dash.py: the batch orchestrator analyze_stocks,    *)
(* the per-symbol pipeline (fetch, 4-hour resample, bar-count check,       *)
(* indicators, sell conditions) and the summary counts of update_analysis. *)
(*                                                                         *)
(* Strings are sequences of one-character strings.  A price frame is a     *)
(* sequence of bars [t, o, h, l, c, v]; t is the bar's time in hours.      *)
(*                                                                         *)
(***************************************************************************)
EXTENDS Integers, Sequences, FiniteSets, TLC

VARIABLES pc, input, symbols, i, stocks_data, downloads, outcomes, steps,
          summary, arg, result

vars == <<pc, input, symbols, i, stocks_data, downloads, outcomes, steps,
          summary, arg, result>>

----------------------------------------------------------------------------
(* Bounds of the model *)

\* longest symbols string typed into the input box
MaxLen == 5
\* most raw bars in a frame handed to the resampler on its own
MaxBars == 4
\* latest hour of a raw bar handed to the resampler on its own
MaxHour == 8
\* number of price levels of a raw bar handed to the resampler on its own
MaxLevel == 3
\* how far from its threshold an indicator value is drawn
MaxDelta == 1

(* Program constants *)

\* resample('4H'): width of a bucket in hours
BucketHours == 4
\* len(data_4h) < 100
MinBars == 100
\* latest_rsi > 70
RsiOverbought == 70

\* a float is <<x>>, or <<>> when it is NaN (missing)
NaN == << >>
Num(x) == <<x>>
Val(f) == f[1]
\* pd.notna
NotNa(f) == f # NaN
\* Python's None, where a float may stand
None == <<"None">>
Unset == "unset"

----------------------------------------------------------------------------
(* str.split(','), str.strip(), str.upper() and the list comprehension *)

Alphabet == {"a", "A", "b", " ", ","}

Whitespace == {" "}

UpperChar(ch) == CASE ch = "a" -> "A"
                   [] ch = "b" -> "B"
                   [] OTHER -> ch

Upper(s) == [k \in 1..Len(s) |-> UpperChar(s[k])]

RECURSIVE LStrip(_)
LStrip(s) == IF s = <<>> \/ Head(s) \notin Whitespace THEN s ELSE LStrip(Tail(s))

RECURSIVE RStrip(_)
RStrip(s) == IF s = <<>> \/ s[Len(s)] \notin Whitespace THEN s
             ELSE RStrip(SubSeq(s, 1, Len(s) - 1))

Strip(s) == RStrip(LStrip(s))

\* s.split(','): one more piece than there are commas; pieces may be empty
RECURSIVE SplitFrom(_, _, _)
SplitFrom(s, k, cur) ==
    IF k > Len(s) THEN <<cur>>
    ELSE IF s[k] = "," THEN <<cur>> \o SplitFrom(s, k + 1, <<>>)
    ELSE SplitFrom(s, k + 1, Append(cur, s[k]))

Split(s) == SplitFrom(s, 1, <<>>)

Truthy(s) == s # <<>>

\* the comprehension without its filter
NormalizeKeepEmpty(s) ==
    LET pieces == Split(s) IN [k \in 1..Len(pieces) |-> Upper(Strip(pieces[k]))]

\* [s.strip().upper() for s in stock_symbols.split(',') if s.strip()]
NormalizeSymbols(s) ==
    LET pieces == Split(s)
        kept == SelectSeq(pieces, LAMBDA p : Truthy(Strip(p)))
    IN [k \in 1..Len(kept) |-> Upper(Strip(kept[k]))]

----------------------------------------------------------------------------
(* The dict stocks_data: pairs in insertion order; assigning to a key that *)
(* is present replaces its value and keeps its place.                      *)

Keys(d) == [k \in 1..Len(d) |-> d[k].key]

HasKey(d, key) == \E k \in 1..Len(d) : d[k].key = key

Get(d, key) == LET k == CHOOSE k \in 1..Len(d) : d[k].key = key IN d[k].rec

\* an assignment that moves a key already present to the end
DictSetMoveToEnd(d, key, rec) ==
    Append(SelectSeq(d, LAMBDA e : e.key # key), [key |-> key, rec |-> rec])

DictSet(d, key, rec) ==
    IF HasKey(d, key)
    THEN [k \in 1..Len(d) |-> IF d[k].key = key THEN [key |-> key, rec |-> rec] ELSE d[k]]
    ELSE Append(d, [key |-> key, rec |-> rec])

----------------------------------------------------------------------------------------------------------------------------------------
(* data.resample('4H').agg(agg_dict).dropna()                              *)

Bucket(t) == t \div BucketHours

SetMax(S) == CHOOSE x \in S : \A y \in S : y <= x

SetMin(S) == CHOOSE x \in S : \A y \in S : x <= y

RECURSIVE SumVolume(_)
SumVolume(rows) == IF rows = <<>> THEN 0 ELSE Head(rows).v + SumVolume(Tail(rows))

\* 'Open': 'first'
AggOpen(rows) == rows[1].o

\* 'High': 'max'
AggHigh(rows) == SetMax({rows[k].h : k \in 1..Len(rows)})

\* 'Low': 'min'
AggLow(rows) == SetMin({rows[k].l : k \in 1..Len(rows)})

\* the close aggregated as 'first'
AggCloseFirst(rows) == rows[1].c

\* 'Close': 'last'
AggClose(rows) == rows[Len(rows)].c

\* 'Volume': 'sum'
AggVolume(rows) == SumVolume(rows)

\* one row of resample(...).agg(...): a bucket with no raw bar gets NaN in
\* the first/max/min/last columns and 0 in the sum column
AggRow(raw, b) ==
    LET rows == SelectSeq(raw, LAMBDA bar : Bucket(bar.t) = b)
    IN IF rows = <<>>
       THEN [t |-> b * BucketHours, o |-> NaN, h |-> NaN, l |-> NaN, c |-> NaN,
             v |-> Num(0)]
       ELSE [t |-> b * BucketHours, o |-> Num(AggOpen(rows)), h |-> Num(AggHigh(rows)),
             l |-> Num(AggLow(rows)), c |-> Num(AggClose(rows)),
             v |-> Num(AggVolume(rows))]

\* every bucket from the first raw bar's to the last raw bar's, in order
ResampleAgg(raw) ==
    IF raw = <<>> THEN <<>>
    ELSE LET lo == Bucket(raw[1].t)
             hi == Bucket(raw[Len(raw)].t)
         IN [k \in 1..(hi - lo + 1) |-> AggRow(raw, lo + k - 1)]

HasNaN(row) == NaN \in {row.o, row.h, row.l, row.c, row.v}

DropNa(frame) == SelectSeq(frame, LAMBDA row : ~HasNaN(row))

Resample4H(raw) == DropNa(ResampleAgg(raw))

----------------------------------------------------------------------------
(* The resampler on its own: raw frames drawn from bounded sets *)

\* the raw bar at hour t on price level p: low < open < close < high
RawBar(t, p) ==
    [t |-> t, o |-> 4 * p + 1, h |-> 4 * p + 3, l |-> 4 * p, c |-> 4 * p + 2, v |-> p]

\* the hours of T in ascending order
Ascending(T) ==
    [k \in 1..Cardinality(T) |-> CHOOSE a \in T : Cardinality({b \in T : b <= a}) = k]

\* the frame with a bar at each hour of T, on the price levels level
RawFrame(T, level) ==
    LET hours == Ascending(T)
    IN [k \in 1..Len(hours) |-> RawBar(hours[k], level[hours[k]])]

\* the hours of frames of at most MaxBars bars
RawHours == {T \in SUBSET (0..MaxHour) : Cardinality(T) <= MaxBars}

InitResample ==
    /\ pc = "resampler"
    /\ input = <<>>
    /\ symbols = <<>>
    /\ i = 0
    /\ stocks_data = <<>>
    /\ downloads = <<>>
    /\ outcomes = <<>>
    /\ steps = <<>>
    /\ summary = Unset
    /\ \E T \in RawHours : \E level \in [T -> 1..MaxLevel] : arg = RawFrame(T, level)
    /\ result = Unset

ApplyResample ==
    /\ pc = "resampler"
    /\ result' = Resample4H(arg)
    /\ pc' = "resampled"
    /\ UNCHANGED <<input, symbols, i, stocks_data, downloads, outcomes, steps,
                   summary, arg>>

NextResample == ApplyResample

SpecResample == InitResample /\ [][NextResample]_vars

----------------------------------------------------------------------------
(* The Market Data Source (yf.download) and the indicator library (ta)     *)
(* are outside the program: what they return is the environment's choice.  *)
(* A frame is taken as it stands after the column renaming (Open, High,    *)
(* Low, Close, Volume); the period is handed to the download unchanged and *)
(* decides nothing in the program.  A success record keeps data_4h by its  *)
(* number of bars.                                                         *)

\* k consecutive hourly bars from hour 0
HourlyFrame(n) == [k \in 1..n |-> RawBar(k - 1, 1 + (k % 3))]

SourceFrames == {"empty", "short", "enough"}

\* "short" resamples to MinBars - 1 bars, "enough" to MinBars bars
Frame(f) == CASE f = "empty" -> << >>
              [] f = "short" -> HourlyFrame(BucketHours * (MinBars - 1))
              [] f = "enough" -> HourlyFrame(BucketHours * (MinBars - 1) + 1)

\* the raw frame and data_4h of each source frame, computed once
RawFrameOf == [f \in SourceFrames |-> Frame(f)]
Frames4H == [f \in SourceFrames |-> Resample4H(RawFrameOf[f])]

NoSnapshot == [bb_high |-> NaN, bb_low |-> NaN, rsi |-> NaN, macd |-> NaN,
               macd_signal |-> NaN]

\* what ta may return as the latest values for a series closing at close:
\* nothing defined, and one, two and three sell conditions met
TaOutputs(close) ==
    { NoSnapshot,
      [bb_high |-> Num(close - 1), bb_low |-> Num(close - 5), rsi |-> Num(RsiOverbought),
       macd |-> Num(0), macd_signal |-> Num(0)],
      [bb_high |-> Num(close), bb_low |-> Num(close - 4), rsi |-> Num(RsiOverbought + 1),
       macd |-> Num(0), macd_signal |-> Num(1)],
      [bb_high |-> Num(close - 1), bb_low |-> Num(close - 5), rsi |-> Num(RsiOverbought + 1),
       macd |-> Num(0 - 1), macd_signal |-> Num(0)] }

LatestClose(data_4h) == data_4h[Len(data_4h)].c

\* one symbol's run of the environment: does the download raise, which frame
\* does it return, does resampling or the indicator code raise, and what
\* does ta compute
Outcomes ==
    {[fetch |-> "raise", frame |-> "empty", compute |-> "ok", ta |-> NoSnapshot],
     [fetch |-> "ok", frame |-> "empty", compute |-> "ok", ta |-> NoSnapshot],
     [fetch |-> "ok", frame |-> "short", compute |-> "ok", ta |-> NoSnapshot],
     [fetch |-> "ok", frame |-> "short", compute |-> "resample", ta |-> NoSnapshot],
     [fetch |-> "ok", frame |-> "enough", compute |-> "indicators", ta |-> NoSnapshot]}
    \cup
    {[fetch |-> "ok", frame |-> "enough", compute |-> "ok", ta |-> snap] :
        snap \in TaOutputs(Val(LatestClose(Frames4H["enough"])))}

\* str(e) of the exception each raising step raises
FetchError == <<"download failed">>
ComputeError == <<"bad frame">>

----------------------------------------------------------------------------
(* analyze_stocks: the body of the loop *)

Digit(d) == CASE d = 0 -> "0" [] d = 1 -> "1" [] d = 2 -> "2" [] d = 3 -> "3"
              [] d = 4 -> "4" [] d = 5 -> "5" [] d = 6 -> "6" [] d = 7 -> "7"
              [] d = 8 -> "8" [] d = 9 -> "9"

\* f'{n}' of a non-negative int
RECURSIVE FormatInt(_)
FormatInt(n) == IF n < 10 THEN <<Digit(n)>>
                ELSE FormatInt(n \div 10) \o <<Digit(n % 10)>>

NoDataMessage == <<"No data available">>

InsufficientMessage(n) ==
    <<"Insufficient data: ">> \o FormatInt(n) \o <<" points (need 100+)">>

ErrorRecord(message) ==
    [status |-> "error", message |-> message,
     conditions |-> <<FALSE, FALSE, FALSE>>, indicators |-> << >>]

\* a frame never taken to be empty
DataNeverEmpty(data) == FALSE

\* data.empty
DataEmpty(data) == data = << >>

\* the bar-count check with <= in place of <
TooFewBarsInclusive(n) == n <= MinBars

\* len(data_4h) < 100
TooFewBars(n) == n < MinBars

\* the conditions with rsi >= 70 in place of rsi > 70
ConditionsInclusive(close, bb_high, rsi, macd, macd_signal) ==
    << IF NotNa(bb_high) THEN Val(close) > Val(bb_high) ELSE FALSE,
       IF NotNa(rsi) THEN Val(rsi) >= RsiOverbought ELSE FALSE,
       IF NotNa(macd) /\ NotNa(macd_signal) THEN Val(macd) < Val(macd_signal) ELSE FALSE >>

\* the three sell conditions on the latest values
Conditions(close, bb_high, rsi, macd, macd_signal) ==
    << IF NotNa(bb_high) THEN Val(close) > Val(bb_high) ELSE FALSE,
       IF NotNa(rsi) THEN Val(rsi) > RsiOverbought ELSE FALSE,
       IF NotNa(macd) /\ NotNa(macd_signal) THEN Val(macd) < Val(macd_signal) ELSE FALSE >>

SuccessRecord(data_4h, snap) ==
    LET close == LatestClose(data_4h)
    IN [status |-> "success",
        bars |-> Len(data_4h),
        conditions |-> Conditions(close, snap.bb_high, snap.rsi, snap.macd,
                                  snap.macd_signal),
        indicators |-> [close |-> close,
                        bb_high |-> snap.bb_high,
                        bb_low |-> IF NotNa(snap.bb_low) THEN snap.bb_low ELSE None,
                        rsi |-> snap.rsi,
                        macd |-> snap.macd,
                        macd_signal |-> snap.macd_signal]]

\* the exception a step raises, and no exception
Raised(text) == [raised |-> TRUE, text |-> text]
NoException == [raised |-> FALSE, text |-> << >>]

\* the try block for one symbol under outcome out: the exception it raises,
\* the record it assigns to stocks_data[stock] (when it raises none) and
\* the steps it ran
TryBody(out) ==
    IF out.fetch = "raise"
    THEN [exc |-> Raised(FetchError), ran |-> {"download"}]
    ELSE IF DataEmpty(RawFrameOf[out.frame])
    THEN [exc |-> NoException, rec |-> ErrorRecord(NoDataMessage), ran |-> {"download"}]
    ELSE IF out.compute = "resample"
    THEN [exc |-> Raised(ComputeError), ran |-> {"download", "resample"}]
    ELSE LET data_4h == Frames4H[out.frame]
         IN IF TooFewBars(Len(data_4h))
            THEN [exc |-> NoException,
                  rec |-> ErrorRecord(InsufficientMessage(Len(data_4h))),
                  ran |-> {"download", "resample", "barcount"}]
            ELSE IF out.compute = "indicators"
            THEN [exc |-> Raised(ComputeError),
                  ran |-> {"download", "resample", "barcount", "indicators"}]
            ELSE [exc |-> NoException, rec |-> SuccessRecord(data_4h, out.ta),
                  ran |-> {"download", "resample", "barcount", "indicators",
                           "conditions"}]

\* a handler that catches the download's errors only
ExceptFetchOnly(exc) == exc.text = FetchError

\* except Exception as e: every exception the body raises matches
ExceptException(exc) == TRUE

\* one pass of the loop for its symbol: whether an exception leaves the
\* loop, and the record stored otherwise
LoopBody(out) ==
    LET r == TryBody(out)
    IN IF ~r.exc.raised THEN [escaped |-> FALSE, rec |-> r.rec, ran |-> r.ran]
       ELSE IF ExceptException(r.exc)
       THEN [escaped |-> FALSE, rec |-> ErrorRecord(r.exc.text), ran |-> r.ran]
       ELSE [escaped |-> TRUE, ran |-> r.ran]

----------------------------------------------------------------------------
(* update_analysis: the summary counts *)

RECURSIVE CountTrue(_)
CountTrue(conditions) ==
    IF conditions = << >> THEN 0
    ELSE (IF Head(conditions) THEN 1 ELSE 0) + CountTrue(Tail(conditions))

IsSuccess(rec) == rec.status = "success"

IsModerateSell(rec) == rec.status = "success" /\ CountTrue(rec.conditions) = 2

IsStrongSell(rec) == rec.status = "success" /\ CountTrue(rec.conditions) = 3

\* the no-sell count with < 1 in place of <= 1
IsNoSellStrict(rec) == rec.status = "success" /\ CountTrue(rec.conditions) < 1

IsNoSell(rec) == rec.status = "success" /\ CountTrue(rec.conditions) <= 1

\* sum(1 for data in stocks_data.values() if ...) for each count; the sell
\* counts are computed only when a symbol succeeded
Summary(d) ==
    LET values == 1..Len(d)
        successful == Cardinality({k \in values : IsSuccess(d[k].rec)})
        errors == Len(d) - successful
    IN IF successful > 0
       THEN [successful |-> successful, errors |-> errors, card |-> TRUE,
             sell_signals_2 |-> Cardinality({k \in values : IsModerateSell(d[k].rec)}),
             sell_signals_3 |-> Cardinality({k \in values : IsStrongSell(d[k].rec)}),
             no_sell_signals |-> Cardinality({k \in values : IsNoSell(d[k].rec)})]
       ELSE [successful |-> successful, errors |-> errors, card |-> FALSE]

----------------------------------------------------------------------------
(* The callback update_analysis and the call of analyze_stocks *)

Inputs == UNION {[1..n -> Alphabet] : n \in 0..MaxLen}

Init ==
    /\ pc = "idle"
    /\ input = << >>
    /\ symbols = << >>
    /\ i = 0
    /\ stocks_data = << >>
    /\ downloads = << >>
    /\ outcomes = << >>
    /\ steps = << >>
    /\ summary = Unset
    /\ arg = Unset
    /\ result = Unset

\* if not n_clicks: raise PreventUpdate
PreventUpdate ==
    /\ pc = "idle"
    /\ pc' = "prevented"
    /\ UNCHANGED <<input, symbols, i, stocks_data, downloads, outcomes, steps,
                   summary, arg, result>>

\* the button is clicked with s in the input box: analyze_stocks starts,
\* with an empty dict and the normalized list
CallAnalyzeStocks ==
    /\ pc = "idle"
    /\ \E s \in Inputs :
          /\ input' = s
          /\ symbols' = NormalizeSymbols(s)
    /\ stocks_data' = << >>
    /\ i' = 0
    /\ pc' = "loop"
    /\ UNCHANGED <<downloads, outcomes, steps, summary, arg, result>>

\* one pass of the for loop, the download answering with outcome out
AnalyzeSymbol ==
    /\ pc = "loop"
    /\ i < Len(symbols)
    /\ \E out \in Outcomes :
          LET stock == symbols[i + 1]
              r == LoopBody(out)
          IN /\ downloads' = Append(downloads, stock)
             /\ outcomes' = Append(outcomes, out)
             /\ steps' = Append(steps, r.ran)
             /\ IF r.escaped
                THEN /\ pc' = "raised"
                     /\ UNCHANGED <<stocks_data, i>>
                ELSE /\ stocks_data' = DictSet(stocks_data, stock, r.rec)
                     /\ i' = i + 1
                     /\ pc' = "loop"
    /\ UNCHANGED <<input, symbols, summary, arg, result>>

\* yf.download is called without a timeout: a source that never answers
\* leaves the call waiting
DownloadNeverReturns ==
    /\ pc = "loop"
    /\ i < Len(symbols)
    /\ downloads' = Append(downloads, symbols[i + 1])
    /\ pc' = "blocked"
    /\ UNCHANGED <<input, symbols, i, stocks_data, outcomes, steps, summary,
                   arg, result>>

\* analyze_stocks returns stocks_data and update_analysis counts its records
ReturnAndSummarize ==
    /\ pc = "loop"
    /\ i = Len(symbols)
    /\ summary' = Summary(stocks_data)
    /\ pc' = "rendered"
    /\ UNCHANGED <<input, symbols, i, stocks_data, downloads, outcomes, steps,
                   arg, result>>

Next ==
    \/ PreventUpdate
    \/ CallAnalyzeStocks
    \/ AnalyzeSymbol
    \/ DownloadNeverReturns
    \/ ReturnAndSummarize

Spec == Init /\ [][Next]_vars

----------------------------------------------------------------------------
(* The condition evaluation on its own: latest values drawn from bounded   *)
(* sets around the thresholds                                              *)

Around(x) == {NaN} \cup {Num(y) : y \in (x - MaxDelta)..(x + MaxDelta)}

EvalInputs ==
    [close : {Num(y) : y \in 0..MaxDelta}, bb_high : Around(0),
     rsi : Around(RsiOverbought), macd : Around(0), macd_signal : Around(0)]

InitEval ==
    /\ pc = "evaluator"
    /\ input = << >>
    /\ symbols = << >>
    /\ i = 0
    /\ stocks_data = << >>
    /\ downloads = << >>
    /\ outcomes = << >>
    /\ steps = << >>
    /\ summary = Unset
    /\ arg \in EvalInputs
    /\ result = Unset

ApplyConditions ==
    /\ pc = "evaluator"
    /\ result' = Conditions(arg.close, arg.bb_high, arg.rsi, arg.macd, arg.macd_signal)
    /\ pc' = "evaluated"
    /\ UNCHANGED <<input, symbols, i, stocks_data, downloads, outcomes, steps,
                   summary, arg>>

NextEval == ApplyConditions

SpecEval == InitEval /\ [][NextEval]_vars

----------------------------------------------------------------------------
(* Properties of analyze_stocks and update_analysis *)

\* the passes of the loop made so far
Passes == 1..Len(outcomes)

\* pass p is the latest pass made for its symbol
LatestPass(p) == \A q \in Passes : q > p => symbols[q] # symbols[p]

\* the environment made pass p fail with an exception
Failed(out) == out.fetch = "raise" \/ (out.frame # "empty" /\ out.compute # "ok")

\* the record a batch of one symbol stores under outcome out
RecordAlone(out) == LoopBody(out).rec

SameRecord(r1, r2) ==
    /\ r1.status = r2.status
    /\ r1.conditions = r2.conditions
    /\ IF r1.status = "error" THEN r1.message = r2.message
       ELSE r1.bars = r2.bars /\ r1.indicators = r2.indicators

\* C1: failure isolation. No exception leaves the loop, every pass leaves a
\* key for its symbol, the batch ends only after the last symbol, a failed
\* pass leaves an error record with the exception's text, and every symbol's
\* record is the one its own latest outcome gives, whatever happened to the
\* other symbols.
C1_FailureIsolation ==
    /\ pc # "raised"
    /\ pc \in {"loop", "rendered"} =>
          /\ Len(outcomes) = i
          /\ \A p \in 1..i : HasKey(stocks_data, symbols[p])
    /\ pc = "rendered" => i = Len(symbols)
    /\ pc \in {"loop", "rendered"} =>
          \A p \in Passes :
             LatestPass(p) =>
                LET rec == Get(stocks_data, symbols[p])
                IN /\ Failed(outcomes[p]) =>
                         /\ rec.status = "error"
                         /\ rec.message = IF outcomes[p].fetch = "raise"
                                          THEN FetchError ELSE ComputeError
                   /\ SameRecord(rec, RecordAlone(outcomes[p]))

\* a finished batch of two symbols where the first fetch raised and the
\* second symbol succeeded
C1_Witness ==
    /\ pc = "rendered"
    /\ Len(symbols) = 2
    /\ Len(stocks_data) = 2
    /\ outcomes[1].fetch = "raise"
    /\ stocks_data[1].rec.status = "error"
    /\ stocks_data[2].rec.status = "success"

(* the tokens of the input, read off the positions of its commas *)

TokenStarts(s) == {1} \cup {k + 1 : k \in {c \in 1..Len(s) : s[c] = ","}}

TokenEnd(s, a) ==
    LET later == {c \in a..Len(s) : s[c] = ","}
    IN IF later = {} THEN Len(s) ELSE SetMin(later) - 1

TokenAt(s, a) == SubSeq(s, a, TokenEnd(s, a))

\* the token without the blanks around it
Trimmed(tok) ==
    LET solid == {k \in 1..Len(tok) : tok[k] # " "}
    IN IF solid = {} THEN << >> ELSE SubSeq(tok, SetMin(solid), SetMax(solid))

UpperCase == [ch \in Alphabet |-> IF ch = "a" THEN "A" ELSE IF ch = "b" THEN "B" ELSE ch]

SymbolAt(s, a) == LET t == Trimmed(TokenAt(s, a)) IN [k \in 1..Len(t) |-> UpperCase[t[k]]]

\* the starts of the tokens that give a symbol not given by an earlier token
FirstSeen(s) ==
    {a \in TokenStarts(s) :
        /\ SymbolAt(s, a) # << >>
        /\ \A b \in TokenStarts(s) : b < a => SymbolAt(s, b) # SymbolAt(s, a)}

\* C2: symbol normalization. The keys of the returned mapping are the
\* trimmed, uppercased non-empty tokens of the input, each once, in the
\* order of their first occurrence.
C2_KeysNormalized ==
    pc = "rendered" =>
       LET first == FirstSeen(input)
           keys == Keys(stocks_data)
       IN /\ Len(keys) = Cardinality(first)
          /\ \A a \in first :
                keys[Cardinality({b \in first : b <= a})] = SymbolAt(input, a)

\* a finished batch whose input names a symbol, then another, then the first
\* again in the other case
C2_Witness ==
    /\ pc = "rendered"
    /\ Len(symbols) = 3
    /\ Len(stocks_data) = 2
    /\ symbols[1] = symbols[3]
    /\ input[1] # input[Len(input)]

\* C3: one evaluation per symbol. No symbol is downloaded twice in a call,
\* and no pass assigns to a key that is already in the mapping.
C3_OneEvaluationPerSymbol ==
    /\ \A p, q \in 1..Len(downloads) : p # q => downloads[p] # downloads[q]
    /\ pc \in {"loop", "rendered"} => Len(stocks_data) = i

Blank(s) == \A k \in 1..Len(s) : s[k] \in {" ", ","}

\* C4: no error reaches the caller, and a symbols string of nothing but
\* blanks and commas gives an empty mapping without any download.
C4_NeverRaises ==
    /\ pc # "raised"
    /\ Blank(input) => downloads = << >> /\ stocks_data = << >>
    /\ (pc = "loop" /\ Blank(input)) => ENABLED ReturnAndSummarize

\* a finished batch for an input of blanks and commas
C4_Witness ==
    /\ pc = "rendered"
    /\ \E k \in 1..Len(input) : input[k] = " "
    /\ \E k \in 1..Len(input) : input[k] = ","
    /\ stocks_data = << >>

\* the number of 4-hour buckets that hold a raw bar of each source frame
BucketCount ==
    [f \in SourceFrames |->
        Cardinality({Bucket(RawFrameOf[f][k].t) : k \in 1..Len(RawFrameOf[f])})]

DigitValue == [d \in {"0", "1", "2", "3", "4", "5", "6", "7", "8", "9"} |->
                 CASE d = "0" -> 0 [] d = "1" -> 1 [] d = "2" -> 2 [] d = "3" -> 3
                   [] d = "4" -> 4 [] d = "5" -> 5 [] d = "6" -> 6 [] d = "7" -> 7
                   [] d = "8" -> 8 [] d = "9" -> 9]

\* the number a sequence of decimal digits writes
RECURSIVE Decimal(_)
Decimal(ds) == IF ds = << >> THEN 0
               ELSE 10 * Decimal(SubSeq(ds, 1, Len(ds) - 1)) + DigitValue[ds[Len(ds)]]

\* message reads 'Insufficient data: <n> points (need 100+)'
SaysInsufficient(message, n) ==
    /\ Len(message) >= 3
    /\ message[1] = "Insufficient data: "
    /\ message[Len(message)] = " points (need 100+)"
    /\ message[2] # "0"
    /\ Decimal(SubSeq(message, 2, Len(message) - 1)) = n

\* the download of pass p returned bars and resampling them did not raise
Resampled(out) == out.fetch = "ok" /\ out.frame # "empty" /\ out.compute # "resample"

\* C5: minimum-bar boundary. A symbol whose bars resample to n < 100 bars
\* gets the error 'Insufficient data: <n> points (need 100+)' and no
\* indicator is computed for it; with n >= 100 bars the indicators are
\* computed and, unless they raise, the conditions evaluated.
C5_MinimumBars ==
    pc \in {"loop", "rendered"} =>
       \A p \in Passes :
          Resampled(outcomes[p]) =>
             LET n == BucketCount[outcomes[p].frame]
                 rec == Get(stocks_data, symbols[p])
             IN IF n < 100
                THEN /\ "indicators" \notin steps[p]
                     /\ "conditions" \notin steps[p]
                     /\ LatestPass(p) =>
                           rec.status = "error" /\ SaysInsufficient(rec.message, n)
                ELSE /\ "indicators" \in steps[p]
                     /\ outcomes[p].compute = "ok" =>
                           /\ "conditions" \in steps[p]
                           /\ LatestPass(p) => rec.status = "success" /\ rec.bars = n

\* a batch where one symbol had 99 resampled bars and another 100
C5_Witness ==
    /\ pc = "rendered"
    /\ Len(stocks_data) = 2
    /\ Resampled(outcomes[1]) /\ BucketCount[outcomes[1].frame] = 99
    /\ stocks_data[1].rec.status = "error"
    /\ Resampled(outcomes[2]) /\ BucketCount[outcomes[2].frame] = 100
    /\ stocks_data[2].rec.status = "success"

NoData(out) == out.fetch = "ok" /\ out.frame = "empty"

\* C6: NoData. A symbol whose download returns an empty series gets the
\* error 'No data available'; nothing after the download is run for it, and
\* the loop goes on to the next symbol.
C6_NoData ==
    pc \in {"loop", "rendered"} =>
       \A p \in Passes :
          NoData(outcomes[p]) =>
             /\ steps[p] = {"download"}
             /\ i >= p
             /\ LatestPass(p) =>
                   LET rec == Get(stocks_data, symbols[p])
                   IN /\ rec.status = "error"
                      /\ rec.message = <<"No data available">>
                      /\ rec.conditions = <<FALSE, FALSE, FALSE>>

\* the first symbol had no data and the loop has evaluated the second
C6_Witness ==
    /\ Len(outcomes) = 2
    /\ NoData(outcomes[1])
    /\ Len(stocks_data) = 2
    /\ stocks_data[2].rec.status = "success"

\* C7: condition evaluation. Three booleans in the order [close above the
\* upper band, rsi above 70, macd below its signal]; each is a strict
\* comparison and is false when a value it reads is undefined.
C7_Conditions ==
    pc = "evaluated" =>
       /\ Len(result) = 3
       /\ result[1] = (arg.bb_high # NaN /\ Val(arg.close) - Val(arg.bb_high) >= 1)
       /\ result[2] = (arg.rsi # NaN /\ Val(arg.rsi) >= 71)
       /\ result[3] = (/\ arg.macd # NaN
                       /\ arg.macd_signal # NaN
                       /\ Val(arg.macd_signal) - Val(arg.macd) >= 1)

\* every indicator exactly at its threshold: all three conditions false
C7_Witness ==
    /\ pc = "evaluated"
    /\ arg.bb_high = arg.close
    /\ arg.rsi = Num(70)
    /\ arg.macd # NaN
    /\ arg.macd = arg.macd_signal
    /\ result = <<FALSE, FALSE, FALSE>>

\* C8: bounded fetch. A call of analyze_stocks that has not returned can
\* always take a step: no download leaves it waiting for ever.
C8_FetchBounded == pc \in {"loop", "blocked"} => ENABLED Next

(* the raw bars of a 4-hour bucket, read off the raw frame *)

InBucket(raw, t) == {k \in 1..Len(raw) : t <= raw[k].t /\ raw[k].t < t + 4}

RECURSIVE VolumeOf(_, _)
VolumeOf(raw, K) ==
    IF K = {} THEN 0
    ELSE LET k == CHOOSE k \in K : TRUE IN raw[k].v + VolumeOf(raw, K \ {k})

\* C9: resampler aggregation. Every emitted bar has raw bars in its bucket
\* and is their first open, highest high, lowest low, last close and summed
\* volume; the emitted bars are in ascending time order.
C9_Aggregation ==
    pc = "resampled" =>
       /\ \A j \in 1..Len(result) :
             LET K == InBucket(arg, result[j].t)
             IN /\ K # {}
                /\ result[j].t % 4 = 0
                /\ result[j].o = Num(arg[SetMin(K)].o)
                /\ result[j].c = Num(arg[SetMax(K)].c)
                /\ \E k \in K : result[j].h = Num(arg[k].h)
                /\ \A k \in K : arg[k].h <= Val(result[j].h)
                /\ \E k \in K : result[j].l = Num(arg[k].l)
                /\ \A k \in K : arg[k].l >= Val(result[j].l)
                /\ result[j].v = Num(VolumeOf(arg, K))
       /\ \A j \in 1..(Len(result) - 1) : result[j].t < result[j + 1].t

\* three raw bars on differing price levels in one bucket, an empty bucket,
\* then a fourth bar: two bars are emitted
C9_Witness ==
    /\ pc = "resampled"
    /\ Len(arg) = 4
    /\ Len(result) = 2
    /\ Cardinality(InBucket(arg, result[1].t)) = 3
    /\ arg[1].o # arg[3].o
    /\ arg[2].h > arg[1].h /\ arg[2].h > arg[3].h
    /\ result[2].t - result[1].t = 8

Records == {k \in 1..Len(stocks_data) : TRUE}

TrueCount(k) == Cardinality({c \in 1..3 : stocks_data[k].rec.conditions[c]})

Counted(field) == IF summary.card THEN summary[field] ELSE 0

\* C10: the summary counts partition the batch. Strong sell counts the
\* successes with three true conditions, moderate sell those with two, no
\* sell signal those with one or none, data errors the other records; the
\* four counts sum to the number of keys; an error record has three false
\* conditions.
C10_SummaryPartition ==
    pc = "rendered" =>
       /\ summary.errors =
             Cardinality({k \in Records : stocks_data[k].rec.status # "success"})
       /\ Counted("sell_signals_3") =
             Cardinality({k \in Records : stocks_data[k].rec.status = "success"
                                          /\ TrueCount(k) = 3})
       /\ Counted("sell_signals_2") =
             Cardinality({k \in Records : stocks_data[k].rec.status = "success"
                                          /\ TrueCount(k) = 2})
       /\ Counted("no_sell_signals") =
             Cardinality({k \in Records : stocks_data[k].rec.status = "success"
                                          /\ TrueCount(k) \in {0, 1}})
       /\ summary.errors + Counted("sell_signals_3") + Counted("sell_signals_2")
             + Counted("no_sell_signals") = Len(stocks_data)
       /\ \A k \in Records :
             stocks_data[k].rec.status # "success" =>
                stocks_data[k].rec.conditions = <<FALSE, FALSE, FALSE>>

\* a batch of one failed symbol and one strong sell
C10_Witness ==
    /\ pc = "rendered"
    /\ Len(stocks_data) = 2
    /\ summary.card
    /\ summary.errors = 1
    /\ summary.sell_signals_3 = 1
    /\ stocks_data[1].rec.status = "error"

====
